---- MODULE Spec2Model ----
(***************************************************************************)
(* Rail-guided robot simulation (package src/robot): RobotParams,          *)
(* RailGeometry, ContactModel, Dynamics, RobotSimulator, StabilityAnalyzer *)
(* and run_spacing_analysis.                                               *)
(*                                                                         *)
(* The program computes in IEEE doubles; the model computes in fixed       *)
(* point, in these units:                                                  *)
(*   length   um      (1e-6 m)        time     ms                          *)
(*   velocity um/s                    accel.   um/s^2                      *)
(*   angle    urad    (1e-6 rad)      yaw rate urad/s                      *)
(*   force    mN                      torque   mN*m                        *)
(*   mass     kg                      inertia  kg*cm^2                     *)
(* A non-finite double (NaN) is the reserved value NaN: every arithmetic   *)
(* operation on it gives NaN and every comparison with it is false.        *)
(***************************************************************************)
EXTENDS Integers, Sequences, FiniteSets, TLC

VARIABLES params, cm, sim_pc, sim, t, solution, contact_forces, analysis,
          sweep_pc, sweep, results, dyn

vars == <<params, cm, sim_pc, sim, t, solution, contact_forces, analysis,
          sweep_pc, sweep, results, dyn>>

-----------------------------------------------------------------------------
(* Floating-point helpers *)

NaN == 0 - 2000000000

IsNaN(a) == a = NaN

Add(a, b) == IF IsNaN(a) \/ IsNaN(b) THEN NaN ELSE a + b

Sub(a, b) == IF IsNaN(a) \/ IsNaN(b) THEN NaN ELSE a - b

Lt(a, b) == ~IsNaN(a) /\ ~IsNaN(b) /\ a < b

Gt(a, b) == ~IsNaN(a) /\ ~IsNaN(b) /\ a > b

Abs(a) == IF IsNaN(a) THEN NaN ELSE IF a < 0 THEN -a ELSE a

Sign(a) == IF IsNaN(a) THEN NaN ELSE IF a > 0 THEN 1 ELSE IF a < 0 THEN -1 ELSE 0

Mul(a, b) == IF IsNaN(a) \/ IsNaN(b) THEN NaN ELSE a * b

\* a / b for b > 0, rounded toward zero
Quot(a, b) == IF IsNaN(a) THEN NaN ELSE IF a >= 0 THEN a \div b ELSE -((-a) \div b)

\* Python min(a, b)
Min(a, b) == IF b < a THEN b ELSE a

RECURSIVE IsqrtBetween(_, _, _)
\* floor(sqrt(n)) by bisection, given lo^2 <= n < hi^2
IsqrtBetween(n, lo, hi) ==
    IF hi - lo <= 1 THEN lo
    ELSE LET mid == (lo + hi) \div 2
         IN  IF mid * mid <= n THEN IsqrtBetween(n, mid, hi)
             ELSE IsqrtBetween(n, lo, mid)

\* floor(sqrt(n)) for 0 <= n <= 10^6
Isqrt(n) == IsqrtBetween(n, 0, 1001)

\* np.tan for a small angle (urad): a + a^3/3
Tan(a) ==
    IF IsNaN(a) THEN NaN
    ELSE LET a2 == Quot(Quot(a, 100) * Quot(a, 100), 100)      \* a^2 in 1e-6
         IN  a + Quot(Quot(Quot(a, 10) * a2, 100000), 3)

\* np.arctan(num / den) in urad for 0 <= num << den (um)
ArcTanRatio(num, den) ==
    LET r  == (num * 1000) \div (den \div 1000)                 \* ratio in 1e-6
        r2 == ((r \div 100) * (r \div 100)) \div 100            \* ratio^2 in 1e-6
    IN  r - (((r \div 10) * r2) \div 100000) \div 3

-----------------------------------------------------------------------------
(* robot/params.py *)

\* moment of inertia of __post_init__: total_mass * wheel_base^2 / 12 (kg*cm^2)
MomentOfInertia(robot_mass, max_pallet_mass, wheel_base) ==
    ((robot_mass + max_pallet_mass)
        * ((wheel_base \div 10000) * (wheel_base \div 10000))) \div 12

\* RobotParams(...): the fields the physics reads, then __post_init__
RobotParams(robot_mass, max_pallet_mass, wheel_base, moment_of_inertia) ==
    [ robot_mass                    |-> robot_mass,
      max_pallet_mass               |-> max_pallet_mass,
      guide_wheel_width             |-> 16000,
      guide_wheel_separation        |-> 464000,
      max_speed                     |-> 1500000,
      acceleration                  |-> 750000,
      wheel_base                    |-> wheel_base,
      moment_of_inertia             |->
          MomentOfInertia(robot_mass, max_pallet_mass, wheel_base),
      rail_flange_height            |-> 19050,
      guide_wheel_separation_across |-> 1119200,
      flange_separation_fixed       |-> 1219200 ]

DefaultParams == RobotParams(227, 1361, 1200000, 0)

-----------------------------------------------------------------------------
(* robot/geometry.py *)

\* RailGeometry.__init__
RailGeometry(p, spacing, rail_angle, rail_angle_per_meter) ==
    [ spacing              |-> spacing,
      rail_angle           |-> rail_angle,
      rail_angle_per_meter |-> rail_angle_per_meter,
      flange_separation    |-> p.flange_separation_fixed ]

\* flanges placed inside the wheel edges by the spacing
GetFlangePositionsInside(p, rg, x) ==
    LET half_separation == p.guide_wheel_separation_across \div 2
        left_contact_edge  == (0 - half_separation) + p.guide_wheel_width \div 2
        right_contact_edge == half_separation - p.guide_wheel_width \div 2
        angle_at_x    == rg.rail_angle
                           + Quot(rg.rail_angle_per_meter * Quot(x, 1000), 1000)
        lateral_shift == Quot(Tan(angle_at_x) * Quot(x, 1000), 1000)
    IN  << Add(Sub(left_contact_edge, rg.spacing), lateral_shift),
           Add(Add(right_contact_edge, rg.spacing), lateral_shift) >>

\* RailGeometry.get_flange_positions: <<left_flange_y, right_flange_y>>
GetFlangePositions(p, rg, x) ==
    LET guide_wheel_left_center  == 0 - (p.guide_wheel_separation_across \div 2)
        guide_wheel_right_center == p.guide_wheel_separation_across \div 2
        guide_wheel_half_width   == p.guide_wheel_width \div 2
        left_contact_edge  == guide_wheel_left_center + guide_wheel_half_width
        right_contact_edge == guide_wheel_right_center - guide_wheel_half_width
        left_flange_base   == Add(left_contact_edge, rg.spacing)
        right_flange_base  == Sub(right_contact_edge, rg.spacing)
        angle_at_x    == rg.rail_angle
                           + Quot(rg.rail_angle_per_meter * Quot(x, 1000), 1000)
        lateral_shift == Quot(Tan(angle_at_x) * Quot(x, 1000), 1000)
    IN  << Add(left_flange_base, lateral_shift),
           Add(right_flange_base, lateral_shift) >>

-----------------------------------------------------------------------------
(* robot/contact.py *)

\* contact_stiffness 1e6 N/m, in mN/um
ContactStiffness == 1000

\* contact_damping 1000 N*s/m, in mN per um/s
ContactDamping == 1

\* friction_coefficient 0.3, in tenths
FrictionTenths == 3

\* ContactModel.__init__
ContactModel(p) ==
    [ contact_stiffness     |-> ContactStiffness,
      contact_damping       |-> ContactDamping,
      friction_coefficient  |-> FrictionTenths,
      guide_wheel_left_pos  |-> 0 - (p.guide_wheel_separation_across \div 2),
      guide_wheel_right_pos |-> p.guide_wheel_separation_across \div 2 ]

\* contact_stiffness * (0.05 / spacing) ** 0.5 for spacing > 50 mm
ReducedStiffness(stiffness, spacing) ==
    LET ratio == (500000000 \div spacing) * 100
                   + ((500000000 % spacing) * 100) \div spacing  \* 1e6*0.05/spacing
    IN  (stiffness * Isqrt(ratio)) \div 1000

EffectiveStiffness(c, rg) ==
    IF Gt(rg.spacing, 50000)
    THEN ReducedStiffness(c.contact_stiffness, rg.spacing)
    ELSE c.contact_stiffness

\* friction_coefficient * abs(normal_force) * np.sign(v) if abs(vy) > 0.01 else 0
FrictionForce(c, normal_force, vy, v) ==
    IF Abs(vy) > 10000
    THEN Quot(c.friction_coefficient * Abs(normal_force), 10) * Sign(v)
    ELSE 0

\* a side force without the spring term
SideForceNoSpring(c, rg, penetration, vy, v) == LET normal_force == c.contact_damping * v IN normal_force + FrictionForce(c, normal_force, vy, v)

\* the force of one side in penetration: normal force plus friction
SideForce(c, rg, penetration, vy, v) ==
    LET normal_force == EffectiveStiffness(c, rg) * penetration
                          + c.contact_damping * v
    IN  normal_force + FrictionForce(c, normal_force, vy, v)

\* contact already when the wheel edge only touches the flange
InContactTouching(gap) == Lt(gap, 1)

\* `if gap < 0`: the wheel edge has penetrated the flange
InContact(gap) == Lt(gap, 0)

\* penetration without the cap at the flange height
PenetrationUncapped(p, gap) == IF InContact(gap) THEN -gap ELSE 0

\* penetration = min(-gap, rail_flange_height) of a side, 0 out of contact
Penetration(p, gap) ==
    IF InContact(gap) THEN Min(-gap, p.rail_flange_height) ELSE 0

\* ContactModel.calculate_contact_force:
\* [force_left, force_right, penetration_left, penetration_right]
CalculateContactForce(p, c, rg, x, y, vy, theta) ==
    LET flange == GetFlangePositions(p, rg, x)
        guide_wheel_half_width   == p.guide_wheel_width \div 2
        left_wheel_center        == Add(y, c.guide_wheel_left_pos)
        right_wheel_center       == Add(y, c.guide_wheel_right_pos)
        left_wheel_contact_edge  == Add(left_wheel_center, guide_wheel_half_width)
        right_wheel_contact_edge == Sub(right_wheel_center, guide_wheel_half_width)
        gap_left  == Sub(flange[1], left_wheel_contact_edge)
        gap_right == Sub(right_wheel_contact_edge, flange[2])
    IN  [ force_left  |-> IF InContact(gap_left)
                          THEN SideForce(c, rg, Penetration(p, gap_left), vy, vy)
                          ELSE 0,
          force_right |-> IF InContact(gap_right)
                          THEN SideForce(c, rg, Penetration(p, gap_right), vy, -vy)
                          ELSE 0,
          penetration_left  |-> Penetration(p, gap_left),
          penetration_right |-> Penetration(p, gap_right) ]

-----------------------------------------------------------------------------
(* robot/dynamics.py *)

\* Dynamics.__init__
Dynamics(p, spacing) == [ spacing |-> spacing ]

\* forward motion without the 0.1 s horizon
ForwardAccelerationUnclipped(p, vx) ==
    IF Lt(vx, p.max_speed) THEN p.acceleration ELSE 0

\* forward motion: constant acceleration up to max speed (um/s^2); a NaN
\* speed compares false and gives 0
ForwardAcceleration(p, vx) ==
    IF Lt(vx, p.max_speed)
    THEN Min(p.acceleration, (p.max_speed - vx) * 10)
    ELSE 0

\* max_angle = arctan(spacing / wheel_base) if spacing > 0 else 0 (urad)
MaxAngle(p, spacing) ==
    IF Gt(spacing, 0) THEN ArcTanRatio(spacing, p.wheel_base) ELSE 0

\* restoring torque added beyond the geometric limit and near it (mN*m)
RestoringTorque(max_angle, theta) ==
    IF IsNaN(theta) THEN 0
    ELSE IF Gt(Abs(theta), max_angle)
    THEN 0 - 1000 * (Abs(theta) - max_angle) * Sign(theta)
    ELSE IF Gt(10 * Abs(theta), 8 * max_angle)
    THEN 0 - 1000 * Quot((10 * Abs(theta) - 8 * max_angle) * 1000, max_angle)
               * Sign(theta)
    ELSE 0

\* -k1 * omega - 1000 * omega * |omega| (mN*m), k1 raised above 50 mm
DampingTorque(spacing, omega) ==
    LET base_damping == IF Gt(spacing, 50000)
                        THEN 300 + spacing \div 1000 ELSE 200
    IN  0 - Quot(base_damping * Quot(omega, 10), 100)
          - Quot(omega, 1000) * Abs(Quot(omega, 1000))

\* (torque + damping_torque) / moment_of_inertia (mrad/s^2);
\* a float division by zero gives a non-finite value
YawAcceleration(p, torque) ==
    IF p.moment_of_inertia = 0 THEN NaN
    ELSE Quot(torque * 10, p.moment_of_inertia \div 1000)

\* linear lateral damper, strengthened above 30% of the forward speed (mN)
LateralDampingForce(vx, vy) ==
    IF vx > 100000 /\ 10 * Abs(vy) > 3 * Abs(vx)
    THEN 0 - Quot(vy, 5)
           - Quot(Quot(10 * Abs(vy) - 3 * Abs(vx), 10), 2) * Sign(vy)
    ELSE 0 - Quot(vy, 5)

\* Dynamics.calculate_dynamics: the derivative of [x, y, theta, vx, vy, omega]
\* (vx, vy in um/s, omega in urad/s, ax in um/s^2, ay in mm/s^2, alpha in
\* mrad/s^2)
CalculateDynamics(p, c, rg, d, state) ==
    LET total_mass == p.robot_mass + p.max_pallet_mass
        f   == CalculateContactForce(p, c, rg, state.x, state.y, state.vy,
                                     state.theta)
        f_y == f.force_right - f.force_left
        guide_wheel_lever_arm == p.guide_wheel_separation \div 2
        torque == Quot(f_y, 1000) * (guide_wheel_lever_arm \div 1000)
                    + RestoringTorque(MaxAngle(p, d.spacing), state.theta)
        coupling_force ==
            0 - Quot(Quot(total_mass * Quot(state.vx, 100), 100)
                        * Quot(state.omega, 1000), 10)
        lateral == f_y + coupling_force + LateralDampingForce(state.vx, state.vy)
    IN  [ x     |-> state.vx,
          y     |-> state.vy,
          theta |-> state.omega,
          vx    |-> ForwardAcceleration(p, state.vx),
          vy    |-> IF total_mass = 0 THEN NaN ELSE Quot(lateral, total_mass),
          omega |-> YawAcceleration(p,
                        torque + DampingTorque(d.spacing, state.omega)) ]

-----------------------------------------------------------------------------
(* robot/simulator.py *)

\* RobotSimulator.__init__: the components of one scenario
RobotSimulator(p, spacing, initial_theta, rail_angle, rail_angle_per_meter) ==
    [ spacing       |-> spacing,
      initial_theta |-> initial_theta,
      rail_geometry |-> RailGeometry(p, spacing, rail_angle, rail_angle_per_meter),
      contact_model |-> ContactModel(p),
      dynamics_obj  |-> Dynamics(p, spacing) ]

\* tm < actual_duration, the closed-form time to travel max_distance (ms, um)
BeforeTravelTime(p, tm, max_distance) ==
    LET t_accel == (p.max_speed * 1000) \div p.acceleration
        d_accel == ((((p.acceleration \div 1000) * t_accel) \div 1000) * t_accel) \div 2
    IN  IF max_distance <= d_accel
        THEN IF tm > t_accel THEN FALSE      \* sqrt(2 d / a) <= t_accel here
             ELSE tm * tm * (p.acceleration \div 10000) < 200 * max_distance
        ELSE (tm - t_accel) * (p.max_speed \div 1000) < max_distance - d_accel

\* a grid bounded by the duration alone
InGridDurationOnly(p, k, duration, dt, max_distance) ==
    k * dt < duration

\* k * dt lies in np.arange(0, min(actual_duration, duration), dt)
InGrid(p, k, duration, dt, max_distance) ==
    /\ k * dt < duration
    /\ BeforeTravelTime(p, k * dt, max_distance)

RECURSIVE TimeGridFrom(_, _, _, _, _)
TimeGridFrom(p, k, duration, dt, max_distance) ==
    IF InGrid(p, k, duration, dt, max_distance)
    THEN <<k * dt>> \o TimeGridFrom(p, k + 1, duration, dt, max_distance)
    ELSE << >>

\* t = np.arange(0, actual_duration, dt)
TimeGrid(p, duration, dt, max_distance) ==
    TimeGridFrom(p, 0, duration, dt, max_distance)

\* dt (ms) is a binary fraction of a second: multiples of it divide exactly
ExactStep(dt) == dt % 125 = 0

\* the arrays np.arange(0, actual_duration, dt) can return: its length is
\* ceil(actual_duration / dt) in floating point, so when the duration is a
\* whole number of steps that are not binary fractions the quotient may
\* round up and add the sample t = duration (simulate(duration=0.07,
\* dt=0.01) returns 8 samples, the last at 0.07)
TimeGrids(p, duration, dt, max_distance) ==
    LET grid == TimeGrid(p, duration, dt, max_distance)
    IN  IF /\ Len(grid) > 0
           /\ ~ExactStep(dt)
           /\ Len(grid) * dt = duration
           /\ BeforeTravelTime(p, duration, max_distance)
        THEN { grid, Append(grid, duration) }
        ELSE { grid }

\* the array of np.arange for one outcome of the rounding: the rounding is a
\* function of (actual_duration, dt), the same in every call that passes them
TimeGridRounded(p, duration, dt, max_distance, rounds_up) ==
    IF rounds_up
    THEN CHOOSE g \in TimeGrids(p, duration, dt, max_distance) :
             \A h \in TimeGrids(p, duration, dt, max_distance) : Len(h) <= Len(g)
    ELSE TimeGrid(p, duration, dt, max_distance)

\* the 20% band closed at 10 mm
InitialYOffsetInclusive(p, s) ==
    IF Lt(s.spacing, 2000)
    THEN Quot(Quot(Mul(p.wheel_base \div 1000, Tan(s.initial_theta)), 1000), 2)
    ELSE IF Lt(s.spacing, 10001)
    THEN Quot(2 * s.spacing, 10)
    ELSE IF IsNaN(s.spacing) THEN NaN ELSE Quot(3 * s.spacing, 10)

\* the initial lateral offset by spacing band
InitialYOffset(p, s) ==
    IF Lt(s.spacing, 2000)
    THEN Quot(Quot(Mul(p.wheel_base \div 1000, Tan(s.initial_theta)), 1000), 2)
    ELSE IF Lt(s.spacing, 10000)
    THEN Quot(2 * s.spacing, 10)
    ELSE IF IsNaN(s.spacing) THEN NaN ELSE Quot(3 * s.spacing, 10)

InitialState(p, s) ==
    [ x |-> 0, y |-> InitialYOffset(p, s), theta |-> s.initial_theta,
      vx |-> 0, vy |-> 0, omega |-> 0 ]

\* one step of the integrator from sample to sample, dt in ms
IntegrateStep(p, s, state, dt) ==
    LET d == CalculateDynamics(p, s.contact_model, s.rail_geometry,
                               s.dynamics_obj, state)
    IN  [ x     |-> state.x + Quot(d.x * dt, 1000),
          y     |-> Add(state.y, Quot(d.y * dt, 1000)),
          theta |-> Add(state.theta, Quot(d.theta * dt, 1000)),
          vx    |-> state.vx + Quot(d.vx * dt, 1000),
          vy    |-> state.vy + d.vy * dt,
          omega |-> state.omega + d.omega * dt ]

\* index of the first sample with x >= max_distance, 0 if none
RECURSIVE FirstReached(_, _, _)
FirstReached(sol, max_distance, i) ==
    IF i > Len(sol) THEN 0
    ELSE IF sol[i].x >= max_distance THEN i
    ELSE FirstReached(sol, max_distance, i + 1)

\* the cut placed before the first sample at max_distance
StopIndexExclusive(sol, max_distance) ==
    IF FirstReached(sol, max_distance, 1) > 0
    THEN FirstReached(sol, max_distance, 1) - 1
    ELSE Len(sol)

\* number of samples kept after the stop at max_distance
StopIndex(sol, max_distance) ==
    IF FirstReached(sol, max_distance, 1) > 0
    THEN FirstReached(sol, max_distance, 1)
    ELSE Len(sol)

\* contact forces computed as for a robot without lateral velocity
ContactForcesAtRest(p, s, sol) ==
    [ i \in 1..Len(sol) |->
        CalculateContactForce(p, s.contact_model, s.rail_geometry,
                              sol[i].x, sol[i].y, 0, sol[i].theta) ]

\* contact forces recomputed at every retained sample
ContactForcesOf(p, s, sol) ==
    [ i \in 1..Len(sol) |->
        CalculateContactForce(p, s.contact_model, s.rail_geometry,
                              sol[i].x, sol[i].y, sol[i].vy, sol[i].theta) ]

-----------------------------------------------------------------------------
(* robot/analysis.py *)

\* StabilityAnalyzer.__init__ thresholds: 50 kN in mN, 0.4 of weight in 1e-3
MaxSafeContactForce == 50000000

ClimbingForceThreshold == 400

\* noise threshold of a rail hit, 10 N in mN
HitThreshold == 10000

NWindows == 5

RECURSIVE MaxOver(_, _, _)
\* np.max of f[lo..hi]; NaN if any element is NaN
MaxOver(f, lo, hi) ==
    IF lo = hi THEN f[lo]
    ELSE LET m == MaxOver(f, lo + 1, hi)
         IN  IF IsNaN(f[lo]) \/ IsNaN(m) THEN NaN
             ELSE IF f[lo] > m THEN f[lo] ELSE m

RECURSIVE SumOver(_, _, _)
SumOver(f, lo, hi) == IF lo > hi THEN 0 ELSE f[lo] + SumOver(f, lo + 1, hi)

\* power delivered into the rails at one sample (mW)
PowerLeft(cf, vy) ==
    IF cf.force_left > 0 /\ vy < 0
    THEN Quot(Quot(cf.force_left, 100) * Quot(-vy, 100), 100) ELSE 0

PowerRight(cf, vy) ==
    IF cf.force_right > 0 /\ vy > 0
    THEN Quot(Quot(cf.force_right, 100) * Quot(vy, 100), 100) ELSE 0

TotalPower(cfs, state) ==
    [ i \in 1..Len(state) |->
        PowerLeft(cfs[i], state[i].vy) + PowerRight(cfs[i], state[i].vy) ]

\* np.trapz(total_power, t) (uJ), 0 with fewer than 2 samples
EnergyImparted(tt, cfs, state) ==
    IF Len(state) > 0 /\ Len(tt) > 1
    THEN LET pw == TotalPower(cfs, state)
         IN  SumOver([ i \in 1..(Len(tt) - 1) |->
                         Quot((tt[i + 1] - tt[i]) * (pw[i] + pw[i + 1]), 2) ],
                     1, Len(tt) - 1)
    ELSE 0

\* max_penetration / rail_flange_height in 1e-5, 0 without a flange
ClimbingRisk(p, max_penetration) ==
    IF p.rail_flange_height > 0
    THEN (max_penetration * 100000) \div p.rail_flange_height
    ELSE 0

\* np.sum(np.diff(np.sign(vy)) != 0)
VySignChanges(state) ==
    Cardinality({ i \in 1..(Len(state) - 1) :
                    Sign(state[i + 1].vy) # Sign(state[i].vy) })

\* vy_sign_changes / (2 * t[-1]) if t[-1] > 0 else 0, as a fraction in Hz
OscillationFrequency(zc, t_last) ==
    IF t_last > 0 THEN [ num |-> zc * 1000, den |-> 2 * t_last ]
    ELSE [ num |-> 0, den |-> 1 ]

\* frequency > thr, thr in mHz
FrequencyAbove(freq, thr) == freq.num * 1000 > thr * freq.den

\* transitions of one side's force from <= 10 N to > 10 N
ContactTransitions(force) ==
    Cardinality({ i \in 2..Len(force) :
                    force[i] > HitThreshold /\ force[i - 1] <= HitThreshold })

TotalRailHits(cfs) ==
    IF Len(cfs) > 1
    THEN ContactTransitions([ i \in 1..Len(cfs) |-> cfs[i].force_left ])
           + ContactTransitions([ i \in 1..Len(cfs) |-> cfs[i].force_right ])
    ELSE 0

\* max(|y|) of each of the 5 windows of len(y) // 5 samples, the last
\* window taking the remainder
Amplitudes(state) ==
    LET n == Len(state)
        window_size == n \div NWindows
        absy == [ i \in 1..n |-> Abs(state[i].y) ]
    IN  [ w \in 1..NWindows |->
            MaxOver(absy, (w - 1) * window_size + 1,
                    IF w < NWindows THEN w * window_size ELSE n) ]

\* 10 * the slope of the least-squares line through the 5 amplitudes
TrendTimesTen(a) ==
    IF \E w \in 1..NWindows : IsNaN(a[w]) THEN NaN
    ELSE 2 * a[5] + a[4] - a[2] - 2 * a[1]

\* the lower threshold already at exactly 50 mm
FreqThresholdInclusive(spacing) == IF Gt(spacing, 49999) THEN 300 ELSE 500

FreqThreshold(spacing) == IF Gt(spacing, 50000) THEN 300 ELSE 500

\* growth required together with the hit count
PingPongVerdictConjoined(spacing, oscillation_frequency, hits_per_10m, is_growing, y_max) ==
    \/ FrequencyAbove(oscillation_frequency, FreqThreshold(spacing))
    \/ (hits_per_10m > 10 /\ is_growing)
    \/ (is_growing /\ Gt(Mul(2, y_max), Mul(3, spacing)))

\* is_ping_ponging: high frequency, or many rail hits, or growing
\* oscillations of significant amplitude
PingPongVerdict(spacing, oscillation_frequency, hits_per_10m, is_growing, y_max) ==
    \/ FrequencyAbove(oscillation_frequency, FreqThreshold(spacing))
    \/ hits_per_10m > 10
    \/ (is_growing /\ Gt(Mul(2, y_max), Mul(3, spacing)))

\* analyze raises ValueError (np.max of an empty array) when the series is
\* empty or a window of len(y) // 5 samples is empty
AnalyzeRaises(state) == Len(state) \div NWindows = 0

\* np.polyfit on amplitudes that are not finite: LinAlgError or a nan slope,
\* depending on the LAPACK build
TrendUndefined(state) == \E i \in 1..Len(state) : IsNaN(state[i].y)

\* StabilityAnalyzer.analyze, for a series on which it does not raise
\* (lateral_std and angular_std, which no verdict reads, are left out)
Analyze(p, spacing, tt, state, cfs) ==
    LET n == Len(state)
        y_max     == MaxOver([ i \in 1..n |-> Abs(state[i].y) ], 1, n)
        theta_max == MaxOver([ i \in 1..n |-> Abs(state[i].theta) ], 1, n)
        max_contact_force ==
            MaxOver([ i \in 1..n |->
                        Abs(cfs[i].force_left) + Abs(cfs[i].force_right) ], 1, n)
        max_penetration ==
            MaxOver([ i \in 1..n |->
                        IF cfs[i].penetration_left > cfs[i].penetration_right
                        THEN cfs[i].penetration_left
                        ELSE cfs[i].penetration_right ], 1, n)
        energy_imparted == EnergyImparted(tt, cfs, state)
        climbing_risk   == ClimbingRisk(p, max_penetration)
        total_mass      == p.robot_mass + p.max_pallet_mass
        climbing_force_risk ==
            /\ total_mass > 0
            /\ max_contact_force > (ClimbingForceThreshold * 981 * total_mass) \div 100
        vy_sign_changes == VySignChanges(state)
        oscillation_frequency == OscillationFrequency(vy_sign_changes, tt[Len(tt)])
        total_rail_hits == TotalRailHits(cfs)
        trend10    == TrendTimesTen(Amplitudes(state))
        is_growing == Gt(trend10, 10000)
        hits_per_10m == total_rail_hits
        is_ping_ponging ==
            PingPongVerdict(spacing, oscillation_frequency, hits_per_10m,
                            is_growing, y_max)
    IN  [ lateral_max           |-> y_max,
          angular_max           |-> theta_max,
          oscillation_frequency |-> oscillation_frequency,
          is_ping_ponging       |-> is_ping_ponging,
          is_growing            |-> is_growing,
          amplitude_trend       |-> Quot(trend10, 10),
          zero_crossings        |-> vy_sign_changes,
          rail_hits             |-> total_rail_hits,
          max_contact_force     |-> max_contact_force,
          max_penetration       |-> max_penetration,
          energy_imparted       |-> energy_imparted,
          climbing_risk         |-> climbing_risk,
          climbing_force_risk   |-> climbing_force_risk,
          excessive_force       |-> max_contact_force > MaxSafeContactForce,
          high_energy           |-> energy_imparted > 1000000000,
          climbing_risk_high    |-> climbing_risk > 80000 \/ climbing_force_risk ]

-----------------------------------------------------------------------------
(* Values of the parts of the state an operation does not use *)

CmIdle == [ pc |-> "idle" ]

DynIdle == [ pc |-> "idle" ]

SimIdle ==
    /\ sim_pc = "idle"
    /\ sim = [ pc |-> "idle" ]
    /\ t = << >>
    /\ solution = << >>
    /\ contact_forces = << >>
    /\ analysis = [ pc |-> "idle" ]

SweepIdle ==
    /\ sweep_pc = "idle"
    /\ sweep = [ pc |-> "idle" ]
    /\ results = << >>

-----------------------------------------------------------------------------
(* Calls of ContactModel.calculate_contact_force on a simulator's contact  *)
(* model (RobotSimulator.contact_force and the calls of simulate)          *)

\* an offset far beyond any spacing (um)
LargeOffset == 1000000

ContactSpacings == { 0, 1000, 5000, 50000, 50001, 100000 }

\* distances of |y| from the spacing
ContactDeltas == { -1000, -1, 0, 1, 1000, 5000, 19050, 19051, LargeOffset }

ContactVelocities ==
    { -200000, -10001, -10000, -1, 0, 1, 10000, 10001, 200000 }

ContactPositions == { 0, 5000000 }

ContactAngles == { 0, 10000 }

RailAngles == { 0, 2000 }

RailCurvatures == { 0, 1000 }

InitContact ==
    /\ params = DefaultParams
    /\ \E spacing \in ContactSpacings, side \in { -1, 1 }, delta \in ContactDeltas,
          vy \in ContactVelocities, x \in ContactPositions,
          theta \in ContactAngles, rail_angle \in RailAngles,
          rail_angle_per_meter \in RailCurvatures :
         cm = [ pc      |-> "call",
                spacing |-> spacing,
                rail_geometry |-> RailGeometry(params, spacing, rail_angle,
                                               rail_angle_per_meter),
                contact_model |-> ContactModel(params),
                x |-> x, y |-> side * (spacing + delta), vy |-> vy,
                theta |-> theta ]
    /\ SimIdle
    /\ SweepIdle
    /\ dyn = DynIdle

\* force_left, force_right, pen_left, pen_right = calculate_contact_force(...)
ContactForceCall ==
    /\ cm.pc = "call"
    /\ cm' = [ pc  |-> "returned",
               spacing |-> cm.spacing,
               rail_geometry |-> cm.rail_geometry,
               contact_model |-> cm.contact_model,
               x |-> cm.x, y |-> cm.y, vy |-> cm.vy, theta |-> cm.theta,
               out |-> CalculateContactForce(params, cm.contact_model,
                                             cm.rail_geometry, cm.x, cm.y,
                                             cm.vy, cm.theta) ]
    /\ UNCHANGED <<params, sim_pc, sim, t, solution, contact_forces, analysis,
                   sweep_pc, sweep, results, dyn>>

NextContact == ContactForceCall

SpecContact == InitContact /\ [][NextContact]_vars

StraightRails(rg) == rg.rail_angle = 0 /\ rg.rail_angle_per_meter = 0

\* C1: repulsive-only contact: both side forces returned by
\* calculate_contact_force are >= 0 for every x, y, vy, theta and spacing,
\* also in penetration while moving away from the flange.
C1_RepulsiveOnly ==
    cm.pc = "returned" => cm.out.force_left >= 0 /\ cm.out.force_right >= 0

-----------------------------------------------------------------------------
(* One scenario: RobotSimulator(...), simulate(...), analyze_stability(...) *)

\* cap on the samples of one run
MaxSamples == 8

SimSpacings == { -1000, 0, 1000, 2000, 5000, 10000, 20000, 50000, 100000, NaN }

InitialThetas == { 0, 10000, NaN }

SimRailAngles == { 0, 2000 }

Durations == { -10, 0, 3, 8, 60, 70 }

TimeSteps == { 1, 10 }

MaxDistances == { 100, 10000000 }

NoAnalysis == [ pc |-> "idle" ]

InitSim ==
    /\ params = DefaultParams
    /\ cm = CmIdle
    /\ sim_pc = "new"
    /\ \E spacing \in SimSpacings, initial_theta \in InitialThetas,
          rail_angle \in SimRailAngles :
         sim = [ args |-> [ spacing |-> spacing, initial_theta |-> initial_theta,
                            rail_angle |-> rail_angle,
                            rail_angle_per_meter |-> 0 ] ]
    /\ t = << >>
    /\ solution = << >>
    /\ contact_forces = << >>
    /\ analysis = NoAnalysis
    /\ SweepIdle
    /\ dyn = DynIdle

\* simulator = RobotSimulator(params, spacing, initial_theta, rail_angle, ...)
Construct ==
    /\ sim_pc = "new"
    /\ sim' = [ args |-> sim.args,
                obj  |-> RobotSimulator(params, sim.args.spacing,
                                        sim.args.initial_theta,
                                        sim.args.rail_angle,
                                        sim.args.rail_angle_per_meter) ]
    /\ sim_pc' = "UNSTARTED"
    /\ UNCHANGED <<params, cm, t, solution, contact_forces, analysis,
                   sweep_pc, sweep, results, dyn>>

\* simulate(duration, dt, max_distance) up to the call of the integrator on
\* a grid with at least one sample
SimulateBegin ==
    /\ sim_pc \in { "UNSTARTED", "STOPPED", "ANALYZED", "RAISED" }
    /\ \E duration \in Durations, dt \in TimeSteps, max_distance \in MaxDistances :
         \E grid \in TimeGrids(params, duration, dt, max_distance) :
             /\ Len(grid) \in 1..MaxSamples
             /\ sim' = [ args |-> sim.args, obj |-> sim.obj,
                         call |-> [ duration |-> duration, dt |-> dt,
                                    max_distance |-> max_distance ] ]
             /\ t' = grid
             /\ solution' = << InitialState(params, sim.obj) >>
    /\ sim_pc' = "INTEGRATING"
    /\ contact_forces' = << >>
    /\ analysis' = NoAnalysis
    /\ UNCHANGED <<params, cm, sweep_pc, sweep, results, dyn>>

\* simulate(...) on an empty grid (duration <= 0): the integrator is handed
\* an empty time array, and either raises or returns no sample
SimulateEmpty ==
    /\ sim_pc \in { "UNSTARTED", "STOPPED", "ANALYZED", "RAISED" }
    /\ \E duration \in Durations, dt \in TimeSteps, max_distance \in MaxDistances :
         /\ Len(TimeGrid(params, duration, dt, max_distance)) = 0
         /\ sim' = [ args |-> sim.args, obj |-> sim.obj,
                     call |-> [ duration |-> duration, dt |-> dt,
                                max_distance |-> max_distance ] ]
    /\ sim_pc' \in { "RAISED", "STOPPED" }
    /\ t' = << >>
    /\ solution' = << >>
    /\ contact_forces' = << >>
    /\ analysis' = NoAnalysis
    /\ UNCHANGED <<params, cm, sweep_pc, sweep, results, dyn>>

\* the integrator advances to the next time of the grid
Integrating ==
    /\ sim_pc = "INTEGRATING"
    /\ Len(solution) < Len(t)
    /\ solution' = Append(solution,
                          IntegrateStep(params, sim.obj, solution[Len(solution)],
                                        sim.call.dt))
    /\ UNCHANGED <<params, cm, sim_pc, sim, t, contact_forces, analysis,
                   sweep_pc, sweep, results, dyn>>

\* the rest of simulate: stop at max_distance, recompute the contact forces
SimulateEnd ==
    /\ sim_pc = "INTEGRATING"
    /\ Len(solution) = Len(t)
    /\ LET stop_idx == StopIndex(solution, sim.call.max_distance)
       IN  /\ solution' = SubSeq(solution, 1, stop_idx)
           /\ t' = SubSeq(t, 1, stop_idx)
           /\ contact_forces' =
                  ContactForcesOf(params, sim.obj, SubSeq(solution, 1, stop_idx))
    /\ sim_pc' = "STOPPED"
    /\ UNCHANGED <<params, cm, sim, analysis, sweep_pc, sweep, results, dyn>>

\* analysis = simulator.analyze_stability(t, state, contact_forces)
AnalyzeStability ==
    /\ sim_pc = "STOPPED"
    /\ \/ /\ AnalyzeRaises(solution) \/ TrendUndefined(solution)
          /\ sim_pc' = "RAISED"
          /\ analysis' = NoAnalysis
       \/ /\ ~AnalyzeRaises(solution)
          /\ sim_pc' = "ANALYZED"
          /\ analysis' = Analyze(params, sim.obj.spacing, t, solution,
                                 contact_forces)
    /\ UNCHANGED <<params, cm, sim, t, solution, contact_forces,
                   sweep_pc, sweep, results, dyn>>

NextSim ==
    \/ Construct
    \/ SimulateBegin
    \/ SimulateEmpty
    \/ Integrating
    \/ SimulateEnd
    \/ AnalyzeStability

SpecSim == InitSim /\ [][NextSim]_vars

SpecContactSim ==
    (InitContact \/ InitSim) /\ [][NextContact \/ NextSim]_vars

\* simulate has returned its arrays
Returned == sim_pc \in { "STOPPED", "ANALYZED" }

PenetrationInRange(cf) ==
    /\ cf.penetration_left >= 0
    /\ cf.penetration_left <= params.rail_flange_height
    /\ cf.penetration_right >= 0
    /\ cf.penetration_right <= params.rail_flange_height

\* C3: penetration cap: for arbitrarily large |y| (any x, vy, theta, spacing)
\* each penetration returned by calculate_contact_force lies in
\* [0, rail_flange_height], so the climbing_risk that analyze computes from a
\* trajectory of simulate lies in [0, 1].
C3_PenetrationCap ==
    /\ cm.pc = "returned" => PenetrationInRange(cm.out)
    /\ Returned =>
         \A i \in 1..Len(contact_forces) : PenetrationInRange(contact_forces[i])
    /\ sim_pc = "ANALYZED" =>
         analysis.climbing_risk >= 0 /\ analysis.climbing_risk <= 100000

\* a wheel far beyond the flange: the penetration is the flange height
C3_Witness ==
    /\ cm.pc = "returned"
    /\ Abs(cm.y) >= cm.spacing + LargeOffset
    /\ \/ cm.out.penetration_left = params.rail_flange_height
       \/ cm.out.penetration_right = params.rail_flange_height

TestSpacings == { 1000, 5000, 10000, 20000, 50000, 100000 }

\* C4: geometric yaw bound: every sample of a trajectory returned by simulate,
\* the first included, has |theta| <= 1.2 * atan(spacing / wheel_base), for
\* spacing in {1, 5, 10, 20, 50, 100} mm, initial_theta = 0.01 rad and
\* default parameters.
C4_GeometricYawBound ==
    ( /\ Returned
      /\ sim.args.spacing \in TestSpacings
      /\ sim.args.initial_theta = 10000
      /\ sim.args.rail_angle = 0 ) =>
        \A i \in 1..Len(solution) :
            5 * Abs(solution[i].theta) <= 6 * MaxAngle(params, sim.args.spacing)

\* a non-finite or negative spacing, or a non-finite initial yaw
InvalidInput(a) ==
    IsNaN(a.spacing) \/ a.spacing < 0 \/ IsNaN(a.initial_theta)

\* C8: input validation: a scenario with an invalid parameter (non-positive
\* duration, negative or out-of-range spacing, non-finite input) is rejected
\* with an error at construction, before any integration step; no invalid
\* value reaches the integrator.
C8_InputValidation ==
    /\ (sim_pc # "idle" /\ InvalidInput(sim.args)) => sim_pc \in { "new", "REJECTED" }
    /\ (sim_pc # "idle" /\ "call" \in DOMAIN sim) => sim.call.duration > 0

NonFinite(state) == IsNaN(state.y) \/ IsNaN(state.theta)

\* C9: divergence reporting: a trajectory with a NaN or infinite sample gives
\* a failure outcome distinguishable from both verdicts; analyze never
\* returns an ordinary verdict for it.
C9_DivergenceReporting ==
    ( /\ sim_pc = "ANALYZED"
      /\ \E i \in 1..Len(solution) : NonFinite(solution[i]) ) =>
        "failure" \in DOMAIN analysis

-----------------------------------------------------------------------------
(* analyze on recorded series: 21 samples built from a number of rail      *)
(* hits, a number of reversals of vy, a sampling period, a drift of y and, *)
(* in one sample, a yaw that may be nan                                    *)

SeriesLen == 21

HitCounts == { 0, 9, 10 }

CrossingCounts == { 0, 2, 3, 4, 10, 11 }

SamplePeriods == { 250, 500, 10000 }

\* drift of y per sample (um)
Drifts == { 0, 238, 239, 1000 }

AnalyzeSpacings == { 20000, 50000, 50001, 100000 }

\* a force of `hits` pulses of 20 N separated by samples without contact
PulseForce(hits, i) == IF i % 2 = 0 /\ i \div 2 <= hits THEN 20000 ELSE 0

\* a lateral velocity that reverses after each of the first `crossings` samples
ReversingVy(crossings, i) ==
    IF (IF i - 1 < crossings THEN i - 1 ELSE crossings) % 2 = 0
    THEN 1000 ELSE -1000

InitAnalyze ==
    /\ params = DefaultParams
    /\ cm = CmIdle
    /\ sim_pc = "STOPPED"
    /\ \E spacing \in AnalyzeSpacings, hits_left \in HitCounts,
          hits_right \in { 0, 1 }, crossings \in CrossingCounts,
          period \in SamplePeriods, drift \in Drifts, over \in { 0, 1 },
          theta \in { 0, NaN } :
         /\ sim = [ args |-> [ spacing |-> spacing, initial_theta |-> 0,
                               rail_angle |-> 0, rail_angle_per_meter |-> 0 ],
                    obj  |-> RobotSimulator(params, spacing, 0, 0, 0) ]
         /\ t = [ i \in 1..SeriesLen |-> (i - 1) * period ]
         /\ solution =
              [ i \in 1..SeriesLen |->
                  [ x |-> 0,
                    y |-> (3 * spacing) \div 2 + over - (SeriesLen - i) * drift,
                    theta |-> IF i = 3 THEN theta ELSE 0, vx |-> 0,
                    vy |-> ReversingVy(crossings, i), omega |-> 0 ] ]
         /\ contact_forces =
              [ i \in 1..SeriesLen |->
                  [ force_left  |-> PulseForce(hits_left, i),
                    force_right |-> PulseForce(hits_right, i),
                    penetration_left |-> 0, penetration_right |-> 0 ] ]
    /\ analysis = NoAnalysis
    /\ SweepIdle
    /\ dyn = DynIdle

NextAnalyze == AnalyzeStability

SpecAnalyze == InitAnalyze /\ [][NextAnalyze]_vars

\* C5: ping-pong verdict: is_ping_ponging is true if and only if
\* oscillation_frequency > threshold (0.3 Hz when spacing > 50 mm, else
\* 0.5 Hz, exactly 50 mm using 0.5), or rail_hits > 10, or (is_growing and
\* lateral_max > 1.5 * spacing); each comparison is strict.
C5_PingPongVerdict ==
    sim_pc = "ANALYZED" =>
        LET a   == analysis
            thr == IF sim.obj.spacing > 50000 THEN 3 ELSE 5    \* tenths of Hz
        IN  a.is_ping_ponging <=>
              \/ 10 * a.oscillation_frequency.num > thr * a.oscillation_frequency.den
              \/ a.rail_hits > 10
              \/ (a.is_growing /\ 2 * a.lateral_max > 3 * sim.obj.spacing)

\* 50 mm spacing, exactly 0.5 Hz, exactly 10 hits, growing with lateral_max
\* exactly 1.5 * spacing: no condition holds, the verdict is false
C5_Witness ==
    /\ sim_pc = "ANALYZED"
    /\ sim.obj.spacing = 50000
    /\ analysis.zero_crossings = 10 /\ t[Len(t)] = 10000
    /\ analysis.rail_hits = 10
    /\ analysis.is_growing /\ analysis.lateral_max = 75000
    /\ ~analysis.is_ping_ponging

-----------------------------------------------------------------------------
(* robot/spacing_analysis.py *)

\* skew_mm / 1000.0 / wheel_base_m (urad)
SkewMmToTheta(skew_mm, wheel_base) ==
    IF IsNaN(skew_mm) THEN NaN
    ELSE Quot(skew_mm * 1000000, wheel_base \div 1000)

\* results[spacing_mm] = entry, keyed by the spacing in metres instead
StoreResultByMetres(res, spacing_mm, entry) ==
    [ k \in DOMAIN res \cup { Mul(spacing_mm, 1000) } |->
        IF k = Mul(spacing_mm, 1000) THEN entry ELSE res[k] ]

\* an entry that extends the trajectory already stored under the key
StoreResultAppending(res, spacing_mm, entry) ==
    [ k \in DOMAIN res \cup { spacing_mm } |->
        IF k # spacing_mm THEN res[k]
        ELSE IF k \in DOMAIN res
        THEN [ entry EXCEPT !.state = res[k].state \o entry.state ]
        ELSE entry ]

\* results[spacing_mm] = entry
StoreResult(res, spacing_mm, entry) ==
    [ k \in DOMAIN res \cup { spacing_mm } |->
        IF k = spacing_mm THEN entry ELSE res[k] ]

\* cap on the length of the list of spacings
MaxListLen == 3

SweepSpacingsMm == { 1, 5, 10, NaN }

SweepDurations == { 0, 3, 6 }

\* default dt of simulate, 0.001 s
DefaultDt == 1

SpacingLists ==
    { l \in UNION { [ 1..n -> SweepSpacingsMm ] : n \in 0..MaxListLen } :
        Cardinality({ i \in 1..Len(l) : IsNaN(l[i]) }) <= 1 }

InitSweep ==
    /\ params = DefaultParams
    /\ cm = CmIdle
    /\ SimIdle
    /\ sweep_pc = "running"
    /\ \E spacings_mm \in SpacingLists, duration \in SweepDurations,
          rounds_up \in BOOLEAN :
         sweep = [ spacings_mm     |-> spacings_mm,
                   rounds_up       |-> rounds_up,
                   duration        |-> duration,
                   initial_skew_mm |-> 10,
                   max_distance    |-> 10000000,
                   rail_angle      |-> 0,
                   rail_angle_per_meter |-> 0,
                   initial_theta   |-> SkewMmToTheta(10, params.wheel_base),
                   i               |-> 1 ]
    /\ results = << >>
    /\ dyn = DynIdle

\* one pass of `for spacing_mm in spacings_mm`, up to the call of the
\* integrator: simulator = RobotSimulator(...), then simulate(duration,
\* max_distance=max_distance); on an empty grid simulate raises or the
\* analysis of its empty arrays does, and the exception leaves
\* run_spacing_analysis
SweepIterationBegin ==
    /\ sweep_pc = "running"
    /\ sim_pc = "idle"
    /\ sweep.i <= Len(sweep.spacings_mm)
    /\ LET spacing_mm == sweep.spacings_mm[sweep.i]
           spacing    == Mul(spacing_mm, 1000)
           simulator  == RobotSimulator(params, spacing, sweep.initial_theta,
                                        sweep.rail_angle,
                                        sweep.rail_angle_per_meter)
       IN  /\ sim' = [ args |-> [ spacing |-> spacing,
                                  initial_theta |-> sweep.initial_theta,
                                  rail_angle |-> sweep.rail_angle,
                                  rail_angle_per_meter |->
                                      sweep.rail_angle_per_meter ],
                       obj  |-> simulator,
                       call |-> [ duration |-> sweep.duration, dt |-> DefaultDt,
                                  max_distance |-> sweep.max_distance ] ]
           /\ \E grid \in { TimeGridRounded(params, sweep.duration, DefaultDt,
                                            sweep.max_distance,
                                            sweep.rounds_up) } :
                IF Len(grid) = 0
                THEN /\ sweep_pc' = "raised"
                     /\ UNCHANGED <<sim_pc, t, solution>>
                ELSE /\ sim_pc' = "INTEGRATING"
                     /\ t' = grid
                     /\ solution' = << InitialState(params, simulator) >>
                     /\ UNCHANGED sweep_pc
    /\ UNCHANGED <<params, cm, contact_forces, analysis, sweep, results, dyn>>

\* the rest of the pass: analysis = simulator.analyze_stability(...), then
\* results[spacing_mm] = {...}; an exception of analyze leaves
\* run_spacing_analysis
SweepIterationEnd ==
    /\ sweep_pc = "running"
    /\ sim_pc = "STOPPED"
    /\ \/ /\ AnalyzeRaises(solution) \/ TrendUndefined(solution)
          /\ sweep_pc' = "raised"
          /\ UNCHANGED <<sim_pc, sim, t, solution, contact_forces, sweep,
                         results>>
       \/ /\ ~AnalyzeRaises(solution)
          /\ results' =
                StoreResult(results, sweep.spacings_mm[sweep.i],
                    [ time           |-> t,
                      state          |-> solution,
                      contact_forces |-> contact_forces,
                      analysis       |-> Analyze(params, sim.obj.spacing, t,
                                                 solution, contact_forces),
                      simulator      |-> sim.obj ])
          /\ sweep' = [ sweep EXCEPT !.i = sweep.i + 1 ]
          /\ sim_pc' = "idle"
          /\ sim' = [ pc |-> "idle" ]
          /\ t' = << >>
          /\ solution' = << >>
          /\ contact_forces' = << >>
          /\ UNCHANGED sweep_pc
    /\ UNCHANGED <<params, cm, analysis, dyn>>

\* return results
SweepReturn ==
    /\ sweep_pc = "running"
    /\ sim_pc = "idle"
    /\ sweep.i > Len(sweep.spacings_mm)
    /\ sweep_pc' = "returned"
    /\ UNCHANGED <<params, cm, sim_pc, sim, t, solution, contact_forces,
                   analysis, sweep, results, dyn>>

NextSweep ==
    \/ SweepIterationBegin
    \/ Integrating
    \/ SimulateEnd
    \/ SweepIterationEnd
    \/ SweepReturn

SpecSweep == InitSweep /\ [][NextSweep]_vars

ListedSpacings == { sweep.spacings_mm[i] : i \in 1..Len(sweep.spacings_mm) }

EntryComplete(k) ==
    /\ { "time", "state", "contact_forces", "analysis", "simulator" }
           \subseteq DOMAIN results[k]
    /\ results[k].simulator.spacing = Mul(k, 1000)

\* C6 as stated: sweep completeness: for every list of spacings, the mapping
\* returned by run_spacing_analysis has exactly len(spacings) entries, one
\* per listed spacing keyed by its millimetre value, each with time, state,
\* contact_forces, analysis and the simulator of spacing key/1000 m.
C6_SweepCompleteness ==
    sweep_pc = "returned" =>
        /\ Cardinality(DOMAIN results) = Len(sweep.spacings_mm)
        /\ DOMAIN results = ListedSpacings
        /\ \A k \in DOMAIN results : EntryComplete(k)

\* C6 amended: the returned mapping has exactly one entry per distinct
\* listed spacing (len(set(spacings)) entries), keyed by its millimetre
\* value, each with time, state, contact_forces, analysis and the simulator
\* of spacing key/1000 m.
C6_SweepCompletenessDistinct ==
    sweep_pc = "returned" =>
        /\ Cardinality(DOMAIN results) = Cardinality(ListedSpacings)
        /\ DOMAIN results = ListedSpacings
        /\ \A k \in DOMAIN results : EntryComplete(k)

\* a list of three spacings, two of them equal, returns two entries
C6_Witness ==
    /\ sweep_pc = "returned"
    /\ Len(sweep.spacings_mm) = 3
    /\ Cardinality(DOMAIN results) = 2
    /\ \A k \in DOMAIN results : EntryComplete(k)

ScenarioDiverged(entry) ==
    \E i \in 1..Len(entry.state) : NonFinite(entry.state[i])

\* C7: sweep failure isolation: when the scenario of one spacing fails
\* (simulate or analyze raises, or the trajectory diverges),
\* run_spacing_analysis still returns a batch result in which that spacing
\* carries a failure record and the others their normal result.
C7_FailureIsolation ==
    /\ sweep_pc # "raised"
    /\ sweep_pc = "returned" =>
         \A k \in DOMAIN results :
             ScenarioDiverged(results[k]) => "failure" \in DOMAIN results[k]

-----------------------------------------------------------------------------
(* RobotParams objects: construction, attribute assignment (the dataclass  *)
(* is not frozen) and the yaw equation of Dynamics.calculate_dynamics      *)

RobotMasses == { 0, 100, 227 }

PalletMasses == { 0, 1361 }

WheelBases == { 0, 500000, 1200000 }

\* moment_of_inertia passed explicitly to RobotParams(...) (kg*cm^2)
MomentArguments == { 0, 5000000 }

DynSpacings == { 0, 5000 }

YawRates == { -100000, 100000 }

InitParams ==
    /\ \E robot_mass \in RobotMasses, max_pallet_mass \in PalletMasses,
          wheel_base \in WheelBases, moment_of_inertia \in MomentArguments :
         params = RobotParams(robot_mass, max_pallet_mass, wheel_base,
                              moment_of_inertia)
    /\ cm = CmIdle
    /\ SimIdle
    /\ SweepIdle
    /\ dyn = [ pc |-> "new" ]

\* params.robot_mass = v
SetRobotMass ==
    /\ \E v \in RobotMasses :
         params' = [ params EXCEPT !.robot_mass = v ]
    /\ UNCHANGED <<cm, sim_pc, sim, t, solution, contact_forces, analysis,
                   sweep_pc, sweep, results, dyn>>

\* params.max_pallet_mass = v
SetMaxPalletMass ==
    /\ \E v \in PalletMasses :
         params' = [ params EXCEPT !.max_pallet_mass = v ]
    /\ UNCHANGED <<cm, sim_pc, sim, t, solution, contact_forces, analysis,
                   sweep_pc, sweep, results, dyn>>

\* params.wheel_base = v
SetWheelBase ==
    /\ \E v \in WheelBases :
         params' = [ params EXCEPT !.wheel_base = v ]
    /\ UNCHANGED <<cm, sim_pc, sim, t, solution, contact_forces, analysis,
                   sweep_pc, sweep, results, dyn>>

\* the yaw equation of calculate_dynamics for a robot clear of the flanges
\* and inside the geometric limit: alpha = damping_torque / moment_of_inertia;
\* spacing / wheel_base raises ZeroDivisionError before it when
\* wheel_base = 0 and spacing > 0
EvaluateDynamics ==
    /\ \E spacing \in DynSpacings, omega \in YawRates :
         IF spacing > 0 /\ params.wheel_base = 0
         THEN dyn' = [ pc |-> "raised" ]
         ELSE dyn' = [ pc    |-> "evaluated",
                       alpha |-> YawAcceleration(params,
                                     DampingTorque(spacing, omega)) ]
    /\ UNCHANGED <<params, cm, sim_pc, sim, t, solution, contact_forces,
                   analysis, sweep_pc, sweep, results>>

NextParams ==
    \/ SetRobotMass
    \/ SetMaxPalletMass
    \/ SetWheelBase
    \/ EvaluateDynamics

SpecParams == InitParams /\ [][NextParams]_vars

\* C10: moment-of-inertia invariant: in every state in which the dynamics
\* can be evaluated, params.moment_of_inertia equals
\* (robot_mass + max_pallet_mass) * wheel_base^2 / 12 and is strictly
\* positive, after construction with any arguments and after any later change
\* of robot_mass, max_pallet_mass or wheel_base, so that the yaw equation
\* never divides by zero.
C10_MomentOfInertiaInvariant ==
    dyn.pc # "idle" =>
        /\ params.moment_of_inertia =
               MomentOfInertia(params.robot_mass, params.max_pallet_mass,
                               params.wheel_base)
        /\ params.moment_of_inertia > 0
        /\ dyn.pc = "evaluated" => ~IsNaN(dyn.alpha)

-----------------------------------------------------------------------------
(* Properties of the arrays returned by simulate *)

\* half of wheel_base * tan(initial_theta), the offset used below 2 mm (um)
HalfGeometricOffset ==
    Quot(Quot(Mul(params.wheel_base \div 1000, Tan(sim.args.initial_theta)),
              1000), 2)

FirstSampleIs(y0) ==
    solution[1] = [ x |-> 0, y |-> y0, theta |-> sim.args.initial_theta,
                    vx |-> 0, vy |-> 0, omega |-> 0 ]

-----------------------------------------------------------------------------
(* simulate at the return of odeint, for whatever array the integrator     *)
(* hands back: four samples with any longitudinal positions                *)

StopPositions == { 0, 5000000, 10000000, 12000000 }

StopOffsets == { 1000, 6000 }

StopVelocities == { -200000, 0 }

InitStop ==
    /\ params = DefaultParams
    /\ cm = CmIdle
    /\ sim_pc = "INTEGRATING"
    /\ sim = [ args |-> [ spacing |-> 5000, initial_theta |-> 10000,
                          rail_angle |-> 0, rail_angle_per_meter |-> 0 ],
               obj  |-> RobotSimulator(params, 5000, 10000, 0, 0),
               call |-> [ duration |-> 4, dt |-> 1, max_distance |-> 10000000 ] ]
    /\ t = TimeGrid(params, 4, 1, 10000000)
    /\ \E xs \in [ 1..4 -> StopPositions ], y \in StopOffsets,
          vy \in StopVelocities :
         solution = [ i \in 1..4 |->
                        [ x |-> xs[i], y |-> y, theta |-> 10000, vx |-> 0,
                          vy |-> vy, omega |-> 0 ] ]
    /\ contact_forces = << >>
    /\ analysis = NoAnalysis
    /\ SweepIdle
    /\ dyn = DynIdle

SpecSimStop == (InitSim \/ InitStop) /\ [][NextSim]_vars

StateColumns == { "x", "y", "theta", "vx", "vy", "omega" }

ForceColumns ==
    { "force_left", "force_right", "penetration_left", "penetration_right" }

\* C12: output alignment: after every simulate call, ended by time or
\* truncated at max_distance, the time, state and contact-force arrays have
\* the same number of rows, the state has 6 columns and the contact forces 4,
\* and row i of contact_forces is calculate_contact_force at (x, y, vy,
\* theta) of state row i.
C12_OutputAlignment ==
    Returned =>
        /\ Len(t) = Len(solution)
        /\ Len(contact_forces) = Len(solution)
        /\ \A i \in 1..Len(solution) :
             /\ DOMAIN solution[i] = StateColumns
             /\ DOMAIN contact_forces[i] = ForceColumns
             /\ contact_forces[i] =
                    CalculateContactForce(params, sim.obj.contact_model,
                        sim.obj.rail_geometry, solution[i].x, solution[i].y,
                        solution[i].vy, solution[i].theta)

\* a run cut at max_distance to fewer samples than its grid, in contact,
\* with a lateral velocity
C12_Witness ==
    /\ sim_pc = "STOPPED"
    /\ Len(t) \in 1..3
    /\ Len(TimeGrid(params, sim.call.duration, sim.call.dt,
                    sim.call.max_distance)) = 4
    /\ Len(contact_forces) = Len(t)
    /\ solution[1].vy # 0
    /\ contact_forces[1].force_left # 0

\* C14: distance stop: every retained sample except possibly the last has
\* x < max_distance; the trajectory is cut immediately after the first sample
\* with x >= max_distance and no later sample is retained.
C14_DistanceStop ==
    [][ (sim_pc = "INTEGRATING" /\ sim_pc' = "STOPPED") =>
          LET kept == Len(solution')
              max_distance == sim.call.max_distance
          IN  /\ kept <= Len(solution)
              /\ solution' = SubSeq(solution, 1, kept)
              /\ t' = SubSeq(t, 1, kept)
              /\ \A i \in 1..(kept - 1) : solution[i].x < max_distance
              /\ kept < Len(solution) => solution[kept].x >= max_distance
      ]_vars

\* a run of four samples cut after its second, the first still short of
\* max_distance
C14_Witness ==
    /\ sim_pc = "STOPPED"
    /\ Len(TimeGrid(params, sim.call.duration, sim.call.dt,
                    sim.call.max_distance)) = 4
    /\ Len(solution) = 2
    /\ solution[1].x < sim.call.max_distance
    /\ solution[2].x >= sim.call.max_distance

-----------------------------------------------------------------------------
(* simulate with coarse steps on a robot that stays clear of the flanges   *)
(* (spacing 100 mm, no initial yaw), so that both the acceleration phase   *)
(* and the cruise phase of the travel time bound the grid                  *)

GridDurations == { 900, 1000, 2000, 7000, 8000, 60000 }

GridTimeSteps == { 300, 500, 1000 }

GridDistances == { 375000, 1500000, 1500001, 3000000, 10000000 }

InitGrid ==
    /\ params = DefaultParams
    /\ cm = CmIdle
    /\ sim_pc = "UNSTARTED"
    /\ sim = [ args |-> [ spacing |-> 100000, initial_theta |-> 0,
                          rail_angle |-> 0, rail_angle_per_meter |-> 0 ],
               obj  |-> RobotSimulator(params, 100000, 0, 0, 0) ]
    /\ t = << >>
    /\ solution = << >>
    /\ contact_forces = << >>
    /\ analysis = NoAnalysis
    /\ SweepIdle
    /\ dyn = DynIdle

\* simulate(duration, dt, max_distance) with positive arguments, up to the
\* call of the integrator
SimulateCoarse ==
    /\ sim_pc \in { "UNSTARTED", "STOPPED" }
    /\ \E duration \in GridDurations, dt \in GridTimeSteps,
          max_distance \in GridDistances :
         \E grid \in TimeGrids(params, duration, dt, max_distance) :
             /\ Len(grid) \in 1..MaxSamples
             /\ sim' = [ args |-> sim.args, obj |-> sim.obj,
                         call |-> [ duration |-> duration, dt |-> dt,
                                    max_distance |-> max_distance ] ]
             /\ t' = grid
             /\ solution' = << InitialState(params, sim.obj) >>
    /\ sim_pc' = "INTEGRATING"
    /\ contact_forces' = << >>
    /\ analysis' = NoAnalysis
    /\ UNCHANGED <<params, cm, sweep_pc, sweep, results, dyn>>

NextGrid ==
    \/ SimulateCoarse
    \/ Integrating
    \/ SimulateEnd

SpecGrid == InitGrid /\ [][NextGrid]_vars

\* tm (ms) is strictly below min(computed_duration, duration), with
\* computed_duration the accelerate-then-cruise time for max_distance
BelowRunTime(tm, call) ==
    LET t_accel == (params.max_speed * 1000) \div params.acceleration
        d_accel == ((params.max_speed \div 1000) * t_accel) \div 2
    IN  /\ tm < call.duration
        /\ IF call.max_distance <= d_accel
           THEN tm * tm * (params.acceleration \div 10000)
                    < 200 * call.max_distance
           ELSE (tm - t_accel) * (params.max_speed \div 1000)
                    < call.max_distance - d_accel

-----------------------------------------------------------------------------
(* Forward motion: calculate_dynamics evaluated at a speed, and stepped *)

\* params.max_speed (um/s) and params.acceleration (um/s^2), positive
MaxSpeeds == { 1000000, 1500000 }

Accelerations == { 250000, 750000 }

\* state[3] handed to calculate_dynamics (um/s)
ForwardSpeeds ==
    { -1000000, 0, 700000, 999999, 1000000, 1424999, 1425000, 1425001,
      1499999, 1500000, 1500001, 2000000, NaN }

\* fixed steps of at most 0.1 s (ms)
StepSizes == { 1, 10, 50, 70, 100 }

InitSpeed ==
    /\ \E max_speed \in MaxSpeeds, acceleration \in Accelerations :
         params = [ DefaultParams EXCEPT !.max_speed = max_speed,
                                         !.acceleration = acceleration ]
    /\ cm = CmIdle
    /\ SimIdle
    /\ SweepIdle
    /\ dyn = [ pc |-> "new" ]

\* derivative[3] of calculate_dynamics(state, contact_force) at state[3] = vx
CalculateForward ==
    /\ dyn.pc \in { "new", "forward" }
    /\ \E vx \in ForwardSpeeds :
         dyn' = [ pc |-> "forward",
                  vx |-> vx,
                  ax |-> ForwardAcceleration(params, vx) ]
    /\ UNCHANGED <<params, cm, sim_pc, sim, t, solution, contact_forces,
                   analysis, sweep_pc, sweep, results>>

\* stepping starts from rest with a fixed step
StepBegin ==
    /\ dyn.pc \in { "new", "forward" }
    /\ \E dt \in StepSizes :
         dyn' = [ pc   |-> "stepping",
                  dt   |-> dt,
                  prev |-> 0,
                  vx   |-> 0,
                  ax   |-> ForwardAcceleration(params, 0) ]
    /\ UNCHANGED <<params, cm, sim_pc, sim, t, solution, contact_forces,
                   analysis, sweep_pc, sweep, results>>

\* vx <- vx + ax * dt, and the derivative at the new speed
Step ==
    /\ dyn.pc = "stepping"
    /\ LET vx == dyn.vx + Quot(dyn.ax * dyn.dt, 1000)
       IN  dyn' = [ dyn EXCEPT !.prev = dyn.vx,
                               !.vx   = vx,
                               !.ax   = ForwardAcceleration(params, vx) ]
    /\ UNCHANGED <<params, cm, sim_pc, sim, t, solution, contact_forces,
                   analysis, sweep_pc, sweep, results>>

NextSpeed ==
    \/ CalculateForward
    \/ StepBegin
    \/ Step

SpecSpeed == InitSpeed /\ [][NextSpeed]_vars

\* C15: longitudinal speed control: with positive max_speed and acceleration,
\* in every state the longitudinal acceleration returned by calculate_dynamics
\* satisfies 0 <= ax <= acceleration, with ax > 0 exactly when
\* vx < max_speed and ax = 0 at or above max_speed; and, starting from vx = 0
\* and stepping with a fixed step dt <= 0.1 s, vx is non-decreasing and never
\* exceeds max_speed.
C15_SpeedControl ==
    /\ dyn.pc \in { "forward", "stepping" } =>
           /\ 0 <= dyn.ax
           /\ dyn.ax <= params.acceleration
           /\ (dyn.ax > 0) <=> Lt(dyn.vx, params.max_speed)
           /\ Gt(dyn.vx, params.max_speed - 1) => dyn.ax = 0
    /\ dyn.pc = "stepping" =>
           /\ dyn.prev <= dyn.vx
           /\ dyn.vx <= params.max_speed

\* stepping with dt = 0.1 s has gone through the clipped phase and stands at
\* max_speed, where the acceleration is zero
C15_Witness ==
    /\ dyn.pc = "stepping"
    /\ dyn.dt = 100
    /\ dyn.prev < dyn.vx
    /\ dyn.prev > params.max_speed - params.acceleration \div 10
    /\ dyn.vx = params.max_speed
    /\ dyn.ax = 0

-----------------------------------------------------------------------------
(* analyze on short recorded series: every series of up to MaxShort samples *)
(* over a few kinds of sample                                               *)

MaxShort == 5

\* one row of contact_forces[:, 0:2] (mN) with state[:, 4] (um/s)
SampleKinds ==
    { [ force_left |-> 0,     force_right |-> 0,     vy |-> 0 ],
      [ force_left |-> 20000, force_right |-> 0,     vy |-> -1000 ],
      [ force_left |-> 20000, force_right |-> 0,     vy |-> 1000 ],
      [ force_left |-> 0,     force_right |-> 10001, vy |-> 1000 ],
      [ force_left |-> 10000, force_right |-> -5000, vy |-> -1000 ],
      [ force_left |-> 0,     force_right |-> 20000, vy |-> 0 ] }

\* sampling periods (ms); 0 stamps every sample with t = 0
SeriesPeriods == { 0, 250 }

InitSeries ==
    /\ params = DefaultParams
    /\ cm = CmIdle
    /\ sim_pc = "STOPPED"
    /\ sim = [ args |-> [ spacing |-> 20000, initial_theta |-> 0,
                          rail_angle |-> 0, rail_angle_per_meter |-> 0 ],
               obj  |-> RobotSimulator(params, 20000, 0, 0, 0) ]
    /\ \E n \in 0..MaxShort, period \in SeriesPeriods :
         \E series \in [ 1..n -> SampleKinds ] :
             /\ t = [ i \in 1..n |-> (i - 1) * period ]
             /\ solution =
                  [ i \in 1..n |->
                      [ x |-> 0, y |-> 0, theta |-> 0, vx |-> 0,
                        vy |-> series[i].vy, omega |-> 0 ] ]
             /\ contact_forces =
                  [ i \in 1..n |->
                      [ force_left  |-> series[i].force_left,
                        force_right |-> series[i].force_right,
                        penetration_left |-> 0, penetration_right |-> 0 ] ]
    /\ analysis = NoAnalysis
    /\ SweepIdle
    /\ dyn = DynIdle

SpecSeries == InitSeries /\ [][NextAnalyze]_vars

\* analyze has been called on the recorded series
AnalyzeCalled == sim_pc \in { "ANALYZED", "RAISED" }

\* 1 if the force of side `side` rises above 10 N at sample i, else 0
HitAt(side, i) ==
    IF /\ i >= 2
       /\ contact_forces[i][side] > 10000
       /\ contact_forces[i - 1][side] <= 10000
    THEN 1 ELSE 0

\* C16: rail-hit count: rail_hits equals the number of indices i >= 1 at
\* which force_left[i] > 10 N and force_left[i-1] <= 10 N, plus the same
\* count for force_right; a side whose force is already above 10 N at the
\* first sample contributes no hit for that contact, and a series with fewer
\* than 2 samples gives 0.
C16_RailHitCount ==
    AnalyzeCalled =>
        /\ sim_pc = "ANALYZED" =>
             analysis.rail_hits =
                 SumOver([ i \in 1..Len(contact_forces) |->
                             HitAt("force_left", i) + HitAt("force_right", i) ],
                         1, Len(contact_forces))
        /\ Len(contact_forces) < 2 =>
             /\ sim_pc = "ANALYZED"
             /\ analysis.rail_hits = 0

\* C16, for the series analyze returns a result for
C16_RailHitCountWhenReturned ==
    sim_pc = "ANALYZED" =>
        analysis.rail_hits =
            SumOver([ i \in 1..Len(contact_forces) |->
                        HitAt("force_left", i) + HitAt("force_right", i) ],
                    1, Len(contact_forces))

\* reversals of direction in solution[i..]: a moving sample whose direction
\* is opposite to `last`, the direction of the latest moving sample before
\* it (0 if none); samples at rest are passed over
RECURSIVE Reversals(_, _)
Reversals(i, last) ==
    IF i > Len(solution) THEN 0
    ELSE LET dir == Sign(solution[i].vy)
         IN  IF dir = 0 THEN Reversals(i + 1, last)
             ELSE (IF last # 0 /\ dir # last THEN 1 ELSE 0)
                    + Reversals(i + 1, dir)

\* C17: oscillation count: zero_crossings equals the number of times the
\* lateral velocity vy changes from moving in one lateral direction to moving
\* in the other (each reversal counted once, a sample at exactly zero adding
\* no count of its own), and oscillation_frequency =
\* zero_crossings / (2 * t[-1]), or 0 when t[-1] <= 0.
C17_OscillationCount ==
    sim_pc = "ANALYZED" =>
        LET f      == analysis.oscillation_frequency
            t_last == t[Len(t)]
        IN  /\ analysis.zero_crossings = Reversals(1, 0)
            /\ IF t_last > 0
               THEN f.num * 2 * t_last = analysis.zero_crossings * 1000 * f.den
               ELSE f.num = 0

\* C17, for series in which no sample has vy = 0
C17_OscillationCountMoving ==
    ( /\ sim_pc = "ANALYZED"
      /\ \A i \in 1..Len(solution) : solution[i].vy # 0 ) =>
        LET f      == analysis.oscillation_frequency
            t_last == t[Len(t)]
        IN  /\ analysis.zero_crossings = Reversals(1, 0)
            /\ IF t_last > 0
               THEN f.num * 2 * t_last = analysis.zero_crossings * 1000 * f.den
               ELSE f.num = 0

\* C18: energy non-negativity: for every input series with non-decreasing
\* time stamps and any signs of force_left, force_right and vy,
\* energy_imparted returned by analyze is >= 0 (each per-sample power term is
\* >= 0), and it is 0 when there are fewer than 2 samples.
C18_EnergyNonNegative ==
    AnalyzeCalled =>
        /\ \A i \in 1..Len(solution) :
             /\ PowerLeft(contact_forces[i], solution[i].vy) >= 0
             /\ PowerRight(contact_forces[i], solution[i].vy) >= 0
        /\ sim_pc = "ANALYZED" => analysis.energy_imparted >= 0
        /\ Len(solution) < 2 =>
             /\ sim_pc = "ANALYZED"
             /\ analysis.energy_imparted = 0

\* C18, for the series analyze returns a result for
C18_EnergyNonNegativeWhenReturned ==
    sim_pc = "ANALYZED" =>
        /\ \A i \in 1..Len(solution) :
             /\ PowerLeft(contact_forces[i], solution[i].vy) >= 0
             /\ PowerRight(contact_forces[i], solution[i].vy) >= 0
        /\ analysis.energy_imparted >= 0

-----------------------------------------------------------------------------
(* Which side is which: the gaps of contact.py against the direction of y *)

\* gap_left = left_flange_pos - left_wheel_contact_edge
GapLeft(p, s, x, y) ==
    Sub(GetFlangePositions(p, s.rail_geometry, x)[1],
        Add(Add(y, s.contact_model.guide_wheel_left_pos),
            p.guide_wheel_width \div 2))

\* gap_right = right_wheel_contact_edge - right_flange_pos
GapRight(p, s, x, y) ==
    Sub(Sub(Add(y, s.contact_model.guide_wheel_right_pos),
            p.guide_wheel_width \div 2),
        GetFlangePositions(p, s.rail_geometry, x)[2])

\* the lateral motion of sample st is closing the gap of the left / right side
ClosingLeft(st) ==
    Lt(GapLeft(params, sim.obj, st.x, Add(st.y, Sign(st.vy))),
       GapLeft(params, sim.obj, st.x, st.y))

ClosingRight(st) ==
    Lt(GapRight(params, sim.obj, st.x, Add(st.y, Sign(st.vy))),
       GapRight(params, sim.obj, st.x, st.y))

\* C19: energy direction: for a trajectory produced by simulate, a sample
\* contributes positive power for a side only if at that sample the robot is
\* moving into that side's flange (that side's gap is shrinking); a sample at
\* which the contacting wheel is moving away from its flange contributes no
\* power.
C19_EnergyDirection ==
    Returned =>
        \A i \in 1..Len(solution) :
            /\ PowerLeft(contact_forces[i], solution[i].vy) > 0 =>
                   ClosingLeft(solution[i])
            /\ PowerRight(contact_forces[i], solution[i].vy) > 0 =>
                   ClosingRight(solution[i])

\* C20: side correspondence: on straight rails with vy = 0, when the robot is
\* displaced to the left (y < 0) by more than the spacing, force_left > 0 and
\* force_right = 0; when it is displaced to the right (y > 0) by more than
\* the spacing, force_right > 0 and force_left = 0.
C20_SideCorrespondence ==
    ( /\ cm.pc = "returned"
      /\ StraightRails(cm.rail_geometry)
      /\ cm.spacing >= 0
      /\ cm.vy = 0 ) =>
        /\ cm.y < 0 - cm.spacing =>
             cm.out.force_left > 0 /\ cm.out.force_right = 0
        /\ cm.y > cm.spacing =>
             cm.out.force_right > 0 /\ cm.out.force_left = 0

\* C20 with the sides exchanged: what calculate_contact_force returns
C20_SideCorrespondenceExchanged ==
    ( /\ cm.pc = "returned"
      /\ StraightRails(cm.rail_geometry)
      /\ cm.spacing >= 0
      /\ cm.vy = 0 ) =>
        /\ cm.y < 0 - cm.spacing =>
             cm.out.force_right > 0 /\ cm.out.force_left = 0
        /\ cm.y > cm.spacing =>
             cm.out.force_left > 0 /\ cm.out.force_right = 0

-----------------------------------------------------------------------------
(* Contact force against the depth of penetration *)

\* increases of |y| between the two calls compared (um)
FurtherSteps == { 1, 1000, 20000 }

\* calculate_contact_force at the same x, vy, theta with |y| larger by d
FurtherOut(d) ==
    CalculateContactForce(params, cm.contact_model, cm.rail_geometry, cm.x,
                          cm.y + Sign(cm.y) * d, cm.vy, cm.theta)

\* force against |y| on one side: non-decreasing, strictly increasing below
\* the cap of the penetration, constant at it
MonotonicOn(force, penetration) ==
    \A d \in FurtherSteps :
        cm.out[penetration] > 0 =>
            /\ FurtherOut(d)[force] >= cm.out[force]
            /\ cm.out[penetration] < params.rail_flange_height =>
                   FurtherOut(d)[force] > cm.out[force]
            /\ cm.out[penetration] = params.rail_flange_height =>
                   FurtherOut(d)[force] = cm.out[force]

\* C21 as stated: monotonic penetration force: for fixed spacing, fixed x and
\* vy = 0, the contact force on a side is non-decreasing as |y| increases
\* once penetration on that side has begun (strictly increasing until the
\* penetration cap, constant after it).
C21_MonotonicPenetrationForce ==
    (cm.pc = "returned" /\ cm.spacing >= 0 /\ cm.vy = 0) =>
        /\ MonotonicOn("force_left", "penetration_left")
        /\ MonotonicOn("force_right", "penetration_right")

\* C21 amended: the same on straight rails (rail angle and curvature zero),
\* where the flanges do not shift with x.
C21_MonotonicPenetrationForceStraight ==
    ( /\ cm.pc = "returned" /\ cm.spacing >= 0 /\ cm.vy = 0
      /\ StraightRails(cm.rail_geometry) ) =>
        /\ MonotonicOn("force_left", "penetration_left")
        /\ MonotonicOn("force_right", "penetration_right")

\* a wheel 1 mm into its flange at rest, on straight rails at x = 5 m: 1 um
\* further out the force is larger
C21_Witness ==
    /\ cm.pc = "returned" /\ cm.vy = 0 /\ cm.x = 5000000
    /\ StraightRails(cm.rail_geometry)
    /\ cm.spacing = 5000 /\ cm.y = 6000
    /\ cm.out.penetration_left = 1000
    /\ FurtherOut(1).force_left > cm.out.force_left

-----------------------------------------------------------------------------
(* Where get_flange_positions puts the flanges *)

\* C22: straight-rail flange positions: with rail angle and curvature both
\* zero, get_flange_positions returns, for every x and every spacing, the
\* left flange at -flange_separation_fixed/2 and the right flange at
\* +flange_separation_fixed/2; with non-zero angle or curvature both are
\* shifted by tan(rail_angle + curvature*x) * x.
C22_FlangePositions ==
    (cm.pc = "returned" /\ StraightRails(cm.rail_geometry)) =>
        GetFlangePositions(params, cm.rail_geometry, cm.x) =
            << 0 - (params.flange_separation_fixed \div 2),
               params.flange_separation_fixed \div 2 >>

\* C22, what the code returns: the flanges stand `spacing` inboard of the
\* guide-wheel contact edges, shifted alike on angled or curved rails
C22_FlangePositionsFromWheelEdges ==
    cm.pc = "returned" =>
        LET edge  == (params.guide_wheel_separation_across \div 2)
                       - (params.guide_wheel_width \div 2)
            here  == GetFlangePositions(params, cm.rail_geometry, cm.x)
            start == GetFlangePositions(params, cm.rail_geometry, 0)
        IN  /\ start = << cm.spacing - edge, edge - cm.spacing >>
            /\ here[1] - start[1] = here[2] - start[2]
            /\ StraightRails(cm.rail_geometry) => here = start

-----------------------------------------------------------------------------
(* Scenarios of a sweep against each other *)

\* the trajectory and the verdict of two entries are the same
SameOutcome(a, b) ==
    /\ a.time = b.time
    /\ a.state = b.state
    /\ a.analysis.lateral_max = b.analysis.lateral_max
    /\ a.analysis.is_ping_ponging = b.analysis.is_ping_ponging

-----------------------------------------------------------------------------
(* Whether a run reaches max_distance *)

\* simulate(duration, dt, max_distance) has returned from a call whose
\* duration is at least the travel time it computes
RanForTravelTime ==
    /\ sim_pc = "STOPPED"
    /\ "call" \in DOMAIN sim
    /\ sim.call.duration > 0
    /\ ~BeforeTravelTime(params, sim.call.duration, sim.call.max_distance)

\* C24: travel completion: the duration computed by simulate is the time the
\* robot needs to travel max_distance, so a run whose user duration is at
\* least that computed duration brings x to max_distance and ends in the
\* distance-reached stop: the final retained sample has x >= max_distance.
C24_TravelCompletion ==
    RanForTravelTime =>
        solution[Len(solution)].x >= sim.call.max_distance

\* C24, what happens with steps of at most 0.1 s: the whole grid is kept and
\* every sample, the last included, is short of max_distance
C24_StopsShort ==
    (RanForTravelTime /\ sim.call.dt <= 100) =>
        /\ Len(solution) = Len(t)
        /\ \A i \in 1..Len(solution) : solution[i].x < sim.call.max_distance

-----------------------------------------------------------------------------
(* The first sample of a run against the flanges *)

NoContact(cf) ==
    /\ cf.force_left = 0 /\ cf.force_right = 0
    /\ cf.penetration_left = 0 /\ cf.penetration_right = 0

\* C25: contact-free start: for every spacing > 0 and every initial_theta,
\* the initial lateral offset y0 chosen by simulate is a fraction of the
\* spacing strictly below 1, so at the first sample neither side is in
\* penetration and both contact forces are zero.
C25_ContactFreeStart ==
    (Returned /\ Len(solution) >= 1 /\ Gt(sim.args.spacing, 0)) =>
        /\ Lt(Abs(solution[1].y), sim.args.spacing)
        /\ NoContact(contact_forces[1])

\* C25 from 2 mm on, where y0 is 20% or 30% of the spacing
C25_ContactFreeStartFromTwoMm ==
    (Returned /\ Len(solution) >= 1 /\ Gt(sim.args.spacing, 1999)) =>
        /\ Lt(Abs(solution[1].y), sim.args.spacing)
        /\ NoContact(contact_forces[1])

-----------------------------------------------------------------------------
(* calculate_contact_force against the yaw angle *)

\* yaw angles tried in place of the one of the call (urad)
OtherYaws == { -100000, -10000, 0, 10000, 100000 }

\* calculate_contact_force at the same x, y, vy with yaw theta
AtYaw(theta) ==
    CalculateContactForce(params, cm.contact_model, cm.rail_geometry, cm.x,
                          cm.y, cm.vy, theta)

\* C26: yaw dependence of contact: the contact force and penetration returned
\* by calculate_contact_force depend on the yaw angle theta, which shifts the
\* guide-wheel lateral positions used to compute the gaps: for a call that
\* returns a penetration below the cap, some other yaw (up to 0.1 rad, 60 mm
\* at the wheels) yields a different contact sample.
C26_YawDependence ==
    ( /\ cm.pc = "returned"
      /\ \/ cm.out.penetration_left \in 1..(params.rail_flange_height - 1)
         \/ cm.out.penetration_right \in 1..(params.rail_flange_height - 1) ) =>
        \E theta \in OtherYaws : AtYaw(theta) # cm.out

\* C26, what the code does: the sample is the same for every yaw
C26_YawIgnored ==
    cm.pc = "returned" => \A theta \in OtherYaws : AtYaw(theta) = cm.out

-----------------------------------------------------------------------------
(* The restoring torque of calculate_dynamics against the yaw angle *)

YawSpacings == { 0, 1000, 5000, 20000 }

\* yaw angles of the state (urad): a grid, and the angles next to the two
\* thresholds of the spacing
YawThetas(spacing) ==
    LET max_angle == MaxAngle(params, spacing)
    IN  { k * 500 : k \in -40..40 }
          \cup { sgn * (b + e) : sgn \in { -1, 1 }, e \in { -1, 0, 1 },
                                 b \in { (8 * max_angle) \div 10, max_angle } }

InitYaw ==
    /\ params = DefaultParams
    /\ cm = CmIdle
    /\ SimIdle
    /\ SweepIdle
    /\ \E spacing \in YawSpacings :
         \E theta \in YawThetas(spacing) :
             dyn = [ pc |-> "call", spacing |-> spacing, theta |-> theta ]

\* calculate_dynamics at a state at rest on the centre line with yaw theta:
\* the restoring torque it adds and the yaw acceleration it returns
CalculateYaw ==
    /\ dyn.pc = "call"
    /\ LET s == RobotSimulator(params, dyn.spacing, dyn.theta, 0, 0)
           d == CalculateDynamics(params, s.contact_model, s.rail_geometry,
                                  s.dynamics_obj,
                                  [ x |-> 0, y |-> 0, theta |-> dyn.theta,
                                    vx |-> 0, vy |-> 0, omega |-> 0 ])
       IN  dyn' = [ pc        |-> "yaw",
                    spacing   |-> dyn.spacing,
                    theta     |-> dyn.theta,
                    max_angle |-> MaxAngle(params, dyn.spacing),
                    restoring |-> RestoringTorque(MaxAngle(params, dyn.spacing),
                                                  dyn.theta),
                    alpha     |-> d.omega ]
    /\ UNCHANGED <<params, cm, sim_pc, sim, t, solution, contact_forces,
                   analysis, sweep_pc, sweep, results>>

NextYaw == CalculateYaw

SpecYaw == InitYaw /\ [][NextYaw]_vars

\* increases of |theta| between the two evaluations compared (urad)
YawIncrements == { 1, 100, 2000 }

\* the restoring torque at a yaw larger in magnitude by d
TorqueBeyond(d) ==
    RestoringTorque(dyn.max_angle, dyn.theta + Sign(dyn.theta) * d)

\* C27: restoring torque shape: the geometric restoring torque added by
\* calculate_dynamics is zero for |theta| <= 0.8 * max_angle, always opposes
\* the sign of theta beyond that, and its magnitude never decreases as
\* |theta| grows through the soft regime (80%-100% of max_angle) into the
\* hard regime (above 100%); the hard regime is at least as strong as the
\* soft regime at the boundary.
C27_RestoringTorqueShape ==
    dyn.pc = "yaw" =>
        /\ 10 * Abs(dyn.theta) <= 8 * dyn.max_angle => dyn.restoring = 0
        /\ 10 * Abs(dyn.theta) > 8 * dyn.max_angle =>
               dyn.restoring * Sign(dyn.theta) <= 0
        /\ \A d \in YawIncrements : Abs(TorqueBeyond(d)) >= Abs(dyn.restoring)

\* C27 within one regime: zero up to 80%, opposing beyond, and the magnitude
\* never decreases between two angles of the same regime
C27_RestoringTorqueShapePerRegime ==
    dyn.pc = "yaw" =>
        /\ 10 * Abs(dyn.theta) <= 8 * dyn.max_angle => dyn.restoring = 0
        /\ 10 * Abs(dyn.theta) > 8 * dyn.max_angle =>
               dyn.restoring * Sign(dyn.theta) <= 0
        /\ \A d \in YawIncrements :
               ( (Abs(dyn.theta) > dyn.max_angle)
                   = (Abs(dyn.theta) + d > dyn.max_angle) ) =>
                   Abs(TorqueBeyond(d)) >= Abs(dyn.restoring)

-----------------------------------------------------------------------------
(* The five amplitude windows of analyze *)

\* the samples y[start_idx:end_idx] of window w (1-based indices)
WindowOf(w, n) ==
    LET window_size == n \div NWindows
    IN  { i \in 1..n :
            /\ i > (w - 1) * window_size
            /\ i <= (IF w < NWindows THEN w * window_size ELSE n) }

WindowsPartition(n) ==
    /\ \A w \in 1..NWindows : WindowOf(w, n) # { }
    /\ \A i \in 1..n : Cardinality({ w \in 1..NWindows : i \in WindowOf(w, n) }) = 1

\* C28: analysis totality: analyze returns a complete verdict dictionary for
\* every trajectory with at least one sample, including trajectories of
\* fewer than 5 samples; the 5-window amplitude split never evaluates an
\* empty window and every sample falls in exactly one window.
C28_AnalysisTotality ==
    (AnalyzeCalled /\ Len(solution) >= 1) =>
        /\ sim_pc = "ANALYZED"
        /\ { "is_ping_ponging", "is_growing", "lateral_max", "rail_hits",
             "oscillation_frequency", "energy_imparted" } \subseteq DOMAIN analysis
        /\ WindowsPartition(Len(solution))

\* C28 from 5 samples on
C28_AnalysisTotalityFromFive ==
    (AnalyzeCalled /\ Len(solution) >= NWindows) =>
        /\ sim_pc = "ANALYZED"
        /\ { "is_ping_ponging", "is_growing", "lateral_max", "rail_hits",
             "oscillation_frequency", "energy_imparted" } \subseteq DOMAIN analysis
        /\ WindowsPartition(Len(solution))

-----------------------------------------------------------------------------
(* analyze on recorded runs of different lengths of travel: a steady        *)
(* lateral position, no reversal of vy, a number of rail hits and a         *)
(* distance covered by state[:, 0]                                          *)

\* distance travelled over the run (um)
TravelDistances == { 5000000, 10000000, 20000000 }

InitTravel ==
    /\ params = DefaultParams
    /\ cm = CmIdle
    /\ sim_pc = "STOPPED"
    /\ \E spacing \in AnalyzeSpacings, hits_left \in HitCounts,
          hits_right \in { 0, 1 }, period \in SamplePeriods,
          distance \in TravelDistances :
         /\ sim = [ args |-> [ spacing |-> spacing, initial_theta |-> 0,
                               rail_angle |-> 0, rail_angle_per_meter |-> 0 ],
                    obj  |-> RobotSimulator(params, spacing, 0, 0, 0) ]
         /\ t = [ i \in 1..SeriesLen |-> (i - 1) * period ]
         /\ solution =
              [ i \in 1..SeriesLen |->
                  [ x |-> ((i - 1) * distance) \div (SeriesLen - 1),
                    y |-> spacing \div 2, theta |-> 0,
                    vx |-> ((distance \div (SeriesLen - 1)) * 1000) \div period,
                    vy |-> 0, omega |-> 0 ] ]
         /\ contact_forces =
              [ i \in 1..SeriesLen |->
                  [ force_left  |-> PulseForce(hits_left, i),
                    force_right |-> PulseForce(hits_right, i),
                    penetration_left |-> 0, penetration_right |-> 0 ] ]
    /\ analysis = NoAnalysis
    /\ SweepIdle
    /\ dyn = DynIdle

SpecTravel == InitTravel /\ [][NextAnalyze]_vars

\* the run's travel: x of the last sample less x of the first (um)
Travelled == solution[Len(solution)].x - solution[1].x

\* only the rail-hit criterion can make the verdict true
OnlyHitCriterion ==
    /\ sim_pc = "ANALYZED"
    /\ ~ analysis.is_growing
    /\ analysis.zero_crossings = 0

\* C29: hit-rate normalisation: the rail-hit criterion of the ping-pong
\* verdict compares hits per 10 m of travel with 10; the count used is
\* normalised to 10 m travelled, so a run over a different max_distance with
\* the same hit rate per metre receives the same outcome from this criterion.
C29_HitRateNormalisation ==
    (OnlyHitCriterion /\ Travelled > 0) =>
        (analysis.is_ping_ponging <=>
             analysis.rail_hits * 10000000 > 10 * Travelled)

\* C29 for the runs that travel 10 m
C29_HitRateOverTenMetres ==
    (OnlyHitCriterion /\ Travelled = 10000000) =>
        (analysis.is_ping_ponging <=>
             analysis.rail_hits * 10000000 > 10 * Travelled)

\* the criterion as computed: the count of hits of the whole run against 10
C29_HitCountNotRate ==
    OnlyHitCriterion => (analysis.is_ping_ponging <=> analysis.rail_hits > 10)

-----------------------------------------------------------------------------
(* One side in contact at a time *)

\* at most one penetration and at most one force of a row is non-zero
OneSided(cf) ==
    /\ cf.penetration_left = 0 \/ cf.penetration_right = 0
    /\ cf.force_left = 0 \/ cf.force_right = 0

\* the larger of |force_left| and |force_right| of a row
SidePeak(cf) ==
    IF Abs(cf.force_left) > Abs(cf.force_right)
    THEN Abs(cf.force_left) ELSE Abs(cf.force_right)

\* C30: one-sided contact: for every spacing > 0 and every state (any x, y,
\* vy, theta, rail angle and curvature), at most one of penetration_left and
\* penetration_right is non-zero, so at most one of force_left and
\* force_right is non-zero and max_contact_force (the peak of
\* |force_left| + |force_right|) equals the per-side peak force.
C30_OneSidedContact ==
    /\ (cm.pc = "returned" /\ Gt(cm.spacing, 0)) => OneSided(cm.out)
    /\ (Returned /\ Gt(sim.args.spacing, 0)) =>
         \A i \in 1..Len(contact_forces) : OneSided(contact_forces[i])
    /\ (sim_pc = "ANALYZED" /\ Gt(sim.args.spacing, 0)) =>
         analysis.max_contact_force =
             MaxOver([ i \in 1..Len(contact_forces) |->
                         SidePeak(contact_forces[i]) ],
                     1, Len(contact_forces))

\* a wheel pressed into its flange with the other side clear
C30_Witness ==
    /\ cm.pc = "returned"
    /\ Gt(cm.spacing, 0)
    /\ cm.out.penetration_left > 0
    /\ cm.out.force_left # 0
    /\ cm.out.penetration_right = 0

\* a run analysed with a contact in it
C30_WitnessAnalysed ==
    /\ sim_pc = "ANALYZED"
    /\ Gt(sim.args.spacing, 0)
    /\ analysis.max_contact_force > 0

====
